---- MODULE Spec2Model ----
(***************************************************************************)
(* Model of the crossword CSP solver, week 3 - Optimisation/crossword/     *)
(* generate.py: CrosswordCreator.solve = enforce_node_consistency, ac3,    *)
(* backtrack.  One behaviour is one run of solve() on one puzzle and one   *)
(* word list.  Words are sequences of letters; Python's 0-based index i is *)
(* position i + 1 of the sequence.                                         *)
(***************************************************************************)
EXTENDS Integers, Sequences, FiniteSets, TLC

VARIABLES crossword, words, order, domains, pc, arcs, ac3_result,
          assignment, stack, ret, result, calls, arcs_arg, appended

vars == <<crossword, words, order, domains, pc, arcs, ac3_result,
          assignment, stack, ret, result, calls, arcs_arg, appended>>

\* ------------------------------------------------------------------------
\* Bounds of the inputs
\* ------------------------------------------------------------------------

\* largest number of words in the word list handed to Crossword
MaxWords == 4

\* longest list of arcs a caller hands to ac3
MaxArcs == 1

Alphabet == {"a", "b"}

\* candidate words: every two-letter word, and the three-letter words with
\* middle letter "a" (no puzzle below crosses a slot at its middle cell)
WordUniverse ==
    {<<l1, l2>> : l1 \in Alphabet, l2 \in Alphabet}
        \cup {<<l1, "a", l2>> : l1 \in Alphabet, l2 \in Alphabet}

WordLists == {ws \in SUBSET WordUniverse : Cardinality(ws) <= MaxWords}

\* ------------------------------------------------------------------------
\* The puzzle model (crossword.py: Crossword.variables, .overlaps,
\* .neighbors, Variable.length)
\* ------------------------------------------------------------------------

\* "island":  A across 2 and B down 2 cross at their first cells; C is a
\*            separate slot of length 3 that crosses nothing.
\* "islet":   as "island", but C has length 2 as well.
\* "chain":   #__      A across (0,1) length 2, B down (0,1) length 3,
\*            #_#      C across (2,0) length 2: A[0] = B[0], B[2] = C[1].
\*            __#
Puzzles == {"island", "islet", "chain"}

variables(cw) ==
    CASE cw = "island" -> {"A", "B", "C"}
      [] cw = "islet"  -> {"A", "B", "C"}
      [] cw = "chain"  -> {"A", "B", "C"}

length(cw, v) ==
    CASE cw = "island" -> IF v = "C" THEN 3 ELSE 2
      [] cw = "islet"  -> 2
      [] cw = "chain"  -> IF v = "B" THEN 3 ELSE 2

None == "None"

\* overlaps[x, y] for x before y in the tables; the pair (i, j) means
\* x_word[i] == y_word[j] with Python's 0-based indices
overlapTable(cw) ==
    CASE cw = "island" -> {<<"A", "B", 0, 0>>}
      [] cw = "islet"  -> {<<"A", "B", 0, 0>>}
      [] cw = "chain"  -> {<<"A", "B", 0, 0>>, <<"B", "C", 2, 1>>}

overlaps(cw, x, y) ==
    IF \E e \in overlapTable(cw) : e[1] = x /\ e[2] = y
    THEN LET e == CHOOSE e \in overlapTable(cw) : e[1] = x /\ e[2] = y
         IN <<e[3], e[4]>>
    ELSE IF \E e \in overlapTable(cw) : e[1] = y /\ e[2] = x
    THEN LET e == CHOOSE e \in overlapTable(cw) : e[1] = y /\ e[2] = x
         IN <<e[4], e[3]>>
    ELSE None

neighbors(cw, var) ==
    {v \in variables(cw) : v /= var /\ overlaps(cw, v, var) /= None}

\* ------------------------------------------------------------------------
\* Helpers for Python's containers
\* ------------------------------------------------------------------------

\* the orders in which a set (or the keys of a dict built from one) can be
\* iterated: hash order, any permutation
Perms(S) ==
    {f \in [1..Cardinality(S) -> S] : \A i, j \in 1..Cardinality(S) :
                                          i /= j => f[i] /= f[j]}

Range(seq) == {seq[k] : k \in 1..Len(seq)}

\* Python's sorted(seq, key=...): stable, ascending
RECURSIVE sorted(_, _)
sorted(seq, key) ==
    IF seq = <<>> THEN <<>>
    ELSE LET init == sorted(SubSeq(seq, 1, Len(seq) - 1), key)
             last == seq[Len(seq)]
         IN SelectSeq(init, LAMBDA e : key[e] <= key[last])
                \o <<last>>
                \o SelectSeq(init, LAMBDA e : key[e] > key[last])

\* assignment[var] = val on a dict
Put(a, var, val) ==
    [v \in (DOMAIN a) \cup {var} |-> IF v = var THEN val ELSE a[v]]

RECURSIVE SumOver(_, _)
SumOver(S, f) ==
    IF S = {} THEN 0
    ELSE LET e == CHOOSE e \in S : TRUE
         IN f[e] + SumOver(S \ {e}, f)

\* ------------------------------------------------------------------------
\* Pure parts of CrosswordCreator
\* ------------------------------------------------------------------------

\* __init__: every variable starts with the whole word list
InitialDomains(cw, ws) == [v \in variables(cw) |-> ws]

\* enforce_node_consistency that also keeps the shorter words
NodeConsistentBroken(cw, d) ==
    [v \in DOMAIN d |-> {val \in d[v] : Len(val) <= length(cw, v)}]

\* enforce_node_consistency
NodeConsistent(cw, d) ==
    [v \in DOMAIN d |-> {val \in d[v] : Len(val) = length(cw, v)}]

\* revise with x and y mixed up in the update: x receives the words of y
\* that some word of x agrees with
ReviseSwapped(cw, d, x, y) ==
    LET i == overlaps(cw, x, y)[1]
        j == overlaps(cw, x, y)[2]
        kept == {y_val \in d[y] :
                    \E x_val \in d[x] : x_val[i + 1] = y_val[j + 1]}
    IN [domains  |-> [d EXCEPT ![x] = kept],
        revision |-> kept /= d[x]]

\* revise with all() in place of any(): a word of x stays only if every
\* word of y agrees with it
ReviseAll(cw, d, x, y) ==
    LET i == overlaps(cw, x, y)[1]
        j == overlaps(cw, x, y)[2]
        removed == {x_val \in d[x] :
                       ~ \A y_val \in d[y] : x_val[i + 1] = y_val[j + 1]}
    IN [domains  |-> [d EXCEPT ![x] = d[x] \ removed],
        revision |-> removed /= {}]

\* revise that never sets its revision flag
ReviseNoFlag(cw, d, x, y) ==
    LET i == overlaps(cw, x, y)[1]
        j == overlaps(cw, x, y)[2]
        removed == {x_val \in d[x] :
                       ~ \E y_val \in d[y] : x_val[i + 1] = y_val[j + 1]}
    IN [domains  |-> [d EXCEPT ![x] = d[x] \ removed],
        revision |-> FALSE]

\* revise(x, y): the domains after the call and the returned flag
revise(cw, d, x, y) ==
    LET i == overlaps(cw, x, y)[1]
        j == overlaps(cw, x, y)[2]
        removed == {x_val \in d[x] :
                       ~ \E y_val \in d[y] : x_val[i + 1] = y_val[j + 1]}
    IN [domains  |-> [d EXCEPT ![x] = d[x] \ removed],
        revision |-> removed /= {}]

\* arcs_helper with the keys of self.domains iterated in order ord and the
\* neighbours of each variable iterated in order nb[var]
RECURSIVE arcs_helper(_, _)
arcs_helper(ord, nb) ==
    IF ord = <<>> THEN <<>>
    ELSE LET var == Head(ord)
         IN [k \in 1..Len(nb[var]) |-> <<var, nb[var][k]>>]
                \o arcs_helper(Tail(ord), nb)

NeighbourOrders(cw) ==
    {nb \in [variables(cw) -> UNION {Perms(neighbors(cw, v)) : v \in variables(cw)}] :
        \A v \in variables(cw) : nb[v] \in Perms(neighbors(cw, v))}

\* every arc of the puzzle
all_arcs(cw) ==
    {a \in variables(cw) \X variables(cw) : a[2] \in neighbors(cw, a[1])}

\* the argument arcs of ac3: the default None, or a list
NoArcs == [given |-> FALSE, list |-> <<>>]

ArcList(q) == [given |-> TRUE, list |-> q]

\* the lists of arcs a caller can hand to ac3
SuppliedArcs(cw) ==
    {ArcList(q) : q \in UNION {[1..n -> all_arcs(cw)] : n \in 0..MaxArcs}}

\* lines 143-144: the queue ac3 starts with for the argument arg, helper
\* being the value of arcs_helper(); `not arcs` holds for None and for []
initial_arcs(arg, helper) ==
    IF (~ arg.given) \/ Len(arg.list) = 0 THEN helper ELSE arg.list

\* how often the arc a occurs in the queue q
Occurrences(q, a) == Cardinality({k \in 1..Len(q) : q[k] = a})

\* lines 151-153: append (x, neighbour) for each neighbour in the sequence
\* ns unless the arc is already queued
RECURSIVE enqueue(_, _, _)
enqueue(q, x, ns) ==
    IF ns = <<>> THEN q
    ELSE LET arc == <<x, Head(ns)>>
         IN enqueue(IF arc \in Range(q) THEN q ELSE Append(q, arc),
                    x, Tail(ns))

\* the while loop of ac3 with the for loop of line 151 outside the `if`:
\* the arcs are appended whether or not revise removed a word
Ac3IterationAlwaysAppends(cw, d, q, ns) ==
    LET x   == Head(q)[1]
        y   == Head(q)[2]
        rev == revise(cw, d, x, y)
    IN IF rev.revision /\ Cardinality(rev.domains[x]) = 0
       THEN [domains |-> rev.domains, arcs |-> Tail(q), status |-> "False"]
       ELSE [domains |-> rev.domains, arcs |-> enqueue(Tail(q), x, ns),
             status |-> "loop"]

\* one iteration of the while loop of ac3 (lines 146-153); ns is the
\* iteration order of neighbors(x) - {y}; status is "loop" while ac3 is
\* still running and "False" when line 150 returns
ac3_iteration(cw, d, q, ns) ==
    LET x   == Head(q)[1]
        y   == Head(q)[2]
        rev == revise(cw, d, x, y)
    IN IF rev.revision
       THEN IF Cardinality(rev.domains[x]) = 0
            THEN [domains |-> rev.domains, arcs |-> Tail(q), status |-> "False"]
            ELSE [domains |-> rev.domains, arcs |-> enqueue(Tail(q), x, ns),
                  status |-> "loop"]
       ELSE [domains |-> rev.domains, arcs |-> Tail(q), status |-> "loop"]

\* ac3() from line 146 on, run to its return on the queue q
RECURSIVE ac3(_, _, _)
ac3(cw, d, q) ==
    IF q = <<>> THEN [domains |-> d, result |-> "True"]
    ELSE LET ns   == CHOOSE ns \in Perms(neighbors(cw, Head(q)[1]) \ {Head(q)[2]}) : TRUE
             next == ac3_iteration(cw, d, q, ns)
         IN IF next.status = "False"
            THEN [domains |-> next.domains, result |-> "False"]
            ELSE ac3(cw, next.domains, next.arcs)

\* assignment_complete on a dict
assignment_complete(cw, a) == \A var \in variables(cw) : var \in DOMAIN a

\* consistent without the loop over neighbouring variables
ConsistentNoOverlap(cw, a) ==
    /\ Cardinality({a[v] : v \in DOMAIN a}) = Cardinality(DOMAIN a)
    /\ \A var \in DOMAIN a : length(cw, var) = Len(a[var])

\* consistent without the check that the values are distinct
ConsistentNoDistinct(cw, a) ==
    /\ \A var \in DOMAIN a : length(cw, var) = Len(a[var])
    /\ \A x \in DOMAIN a : \A y \in DOMAIN a :
          (x /= y /\ overlaps(cw, x, y) /= None)
              => a[x][overlaps(cw, x, y)[1] + 1] = a[y][overlaps(cw, x, y)[2] + 1]

\* consistent
consistent(cw, a) ==
    /\ Cardinality({a[v] : v \in DOMAIN a}) = Cardinality(DOMAIN a)
    /\ \A var \in DOMAIN a : length(cw, var) = Len(a[var])
    /\ \A x \in DOMAIN a : \A y \in DOMAIN a :
          (x /= y /\ overlaps(cw, x, y) /= None)
              => a[x][overlaps(cw, x, y)[1] + 1] = a[y][overlaps(cw, x, y)[2] + 1]

\* the counts order_domain_values builds in least_constraining_values
least_constraining_values(cw, d, var, a) ==
    [x_val \in d[var] |->
        SumOver({n \in neighbors(cw, var) : n \notin DOMAIN a},
                [n \in neighbors(cw, var) |->
                    Cardinality({y_val \in d[n] :
                        x_val[overlaps(cw, var, n)[1] + 1]
                            /= y_val[overlaps(cw, var, n)[2] + 1]})])]

\* order_domain_values sorted with reverse=True
OrderDescending(cw, d, var, a, iter) ==
    LET count == least_constraining_values(cw, d, var, a)
    IN sorted(iter, [x_val \in d[var] |-> 0 - count[x_val]])

\* order_domain_values, with iter the iteration order of self.domains[var]
order_domain_values(cw, d, var, a, iter) ==
    sorted(iter, least_constraining_values(cw, d, var, a))

\* select_unassigned_variable that takes the largest domain
SelectLargestDomain(cw, d, ord, a) ==
    LET unassigned_vars == SelectSeq(ord, LAMBDA v : v \notin DOMAIN a)
        negsize         == [v \in variables(cw) |-> 0 - Cardinality(d[v])]
    IN sorted(unassigned_vars, negsize)[1]

\* select_unassigned_variable that takes the first unassigned variable
SelectFirstUnassigned(cw, d, ord, a) ==
    SelectSeq(ord, LAMBDA v : v \notin DOMAIN a)[1]

\* select_unassigned_variable, with ord the key order of self.domains
select_unassigned_variable(cw, d, ord, a) ==
    LET unassigned_vars     == SelectSeq(ord, LAMBDA v : v \notin DOMAIN a)
        size                == [v \in variables(cw) |-> Cardinality(d[v])]
        degree              == [v \in variables(cw) |-> Cardinality(neighbors(cw, v))]
        min_remaining_value == sorted(unassigned_vars, size)
        min_values          == size[min_remaining_value[1]]
        mrv                 == SelectSeq(min_remaining_value,
                                         LAMBDA v : size[v] = min_values)
        highest_degrees     == sorted(mrv, degree)
    IN highest_degrees[1]

\* ------------------------------------------------------------------------
\* solve() as a state machine
\* ------------------------------------------------------------------------

Init ==
    /\ crossword \in Puzzles
    /\ words \in WordLists
    /\ order \in Perms(variables(crossword))
    /\ domains = InitialDomains(crossword, words)
    /\ pc = "solve"
    /\ arcs = <<>>
    /\ ac3_result = "unset"
    /\ assignment = <<>>
    /\ stack = <<>>
    /\ ret = "unset"
    /\ result = "pending"
    /\ calls = 0
    /\ arcs_arg = NoArcs
    /\ appended = [a \in all_arcs(crossword) |-> 0]

\* line 93
EnforceNodeConsistency ==
    /\ pc = "solve"
    /\ domains' = NodeConsistent(crossword, domains)
    /\ pc' = "ac3"
    /\ UNCHANGED <<crossword, words, order, arcs_arg, appended, arcs,
                   ac3_result, assignment,
                   stack, ret, result, calls>>

\* line 94 into lines 143-144: solve passes no arcs
Ac3Start ==
    /\ pc = "ac3"
    /\ arcs_arg' = NoArcs
    /\ \E nb \in NeighbourOrders(crossword) :
          arcs' = initial_arcs(NoArcs, arcs_helper(order, nb))
    /\ pc' = "ac3_loop"
    /\ UNCHANGED <<crossword, words, order, appended, domains, ac3_result,
                   assignment, stack, ret, result, calls>>

\* lines 143-144 when a caller hands a list of arcs to ac3
Ac3StartWith ==
    /\ pc = "ac3"
    /\ \E arg \in SuppliedArcs(crossword) : \E nb \in NeighbourOrders(crossword) :
          /\ arcs_arg' = arg
          /\ arcs' = initial_arcs(arg, arcs_helper(order, nb))
    /\ pc' = "ac3_loop"
    /\ UNCHANGED <<crossword, words, order, appended, domains, ac3_result,
                   assignment, stack, ret, result, calls>>

\* lines 146-153
Ac3Iteration ==
    /\ pc = "ac3_loop"
    /\ arcs /= <<>>
    /\ \E ns \in Perms(neighbors(crossword, Head(arcs)[1]) \ {Head(arcs)[2]}) :
          LET next == ac3_iteration(crossword, domains, arcs, ns)
          IN /\ domains' = next.domains
             /\ arcs' = next.arcs
             /\ appended' = [a \in DOMAIN appended |->
                                appended[a] + Occurrences(next.arcs, a)
                                            - Occurrences(Tail(arcs), a)]
             /\ IF next.status = "False"
                THEN ac3_result' = "False" /\ pc' = "ac3_returned"
                ELSE UNCHANGED <<ac3_result, pc>>
    /\ UNCHANGED <<crossword, words, order, arcs_arg, assignment, stack, ret,
                   result, calls>>

\* line 154
Ac3Exhausted ==
    /\ pc = "ac3_loop"
    /\ arcs = <<>>
    /\ ac3_result' = "True"
    /\ pc' = "ac3_returned"
    /\ UNCHANGED <<crossword, words, order, arcs_arg, appended, domains, arcs,
                   assignment,
                   stack, ret, result, calls>>

\* line 95: the value of ac3 is dropped, backtrack(dict()) is called
SolveCallsBacktrack ==
    /\ pc = "ac3_returned"
    /\ assignment' = <<>>
    /\ calls' = calls + 1
    /\ pc' = "call"
    /\ UNCHANGED <<crossword, words, order, arcs_arg, appended, domains, arcs,
                   ac3_result,
                   stack, ret, result>>

\* lines 251-255: entry of backtrack(assignment)
BacktrackEnter ==
    /\ pc = "call"
    /\ IF assignment_complete(crossword, assignment)
       THEN /\ ret' = "assignment"
            /\ pc' = "return"
            /\ UNCHANGED stack
       ELSE LET var == select_unassigned_variable(crossword, domains, order, assignment)
            IN \E iter \in Perms(domains[var]) :
                  /\ stack' = Append(stack,
                        [var |-> var,
                         vals |-> order_domain_values(crossword, domains, var,
                                                      assignment, iter),
                         assignment_copy |-> assignment])
                  /\ pc' = "loop"
                  /\ UNCHANGED ret
    /\ UNCHANGED <<crossword, words, order, arcs_arg, appended, domains, arcs,
                   ac3_result,
                   assignment, result, calls>>

\* the for loop with forward pruning: a consistent candidate becomes the
\* only word left in the domain of its variable
BacktrackTryPruning ==
    /\ pc = "loop"
    /\ stack[Len(stack)].vals /= <<>>
    /\ LET frame == stack[Len(stack)]
           val   == Head(frame.vals)
           copy  == Put(frame.assignment_copy, frame.var, val)
       IN /\ stack' = [stack EXCEPT ![Len(stack)] =
                          [frame EXCEPT !.vals = Tail(frame.vals),
                                        !.assignment_copy = copy]]
          /\ IF consistent(crossword, copy)
             THEN /\ assignment' = Put(assignment, frame.var, val)
                  /\ domains' = [domains EXCEPT ![frame.var] = {val}]
                  /\ calls' = calls + 1
                  /\ pc' = "call"
             ELSE UNCHANGED <<assignment, domains, calls, pc>>
    /\ UNCHANGED <<crossword, words, order, arcs_arg, appended, arcs,
                   ac3_result, ret, result>>

\* lines 255-259: one candidate of the for loop
BacktrackTry ==
    /\ pc = "loop"
    /\ stack[Len(stack)].vals /= <<>>
    /\ LET frame == stack[Len(stack)]
           val   == Head(frame.vals)
           copy  == Put(frame.assignment_copy, frame.var, val)
       IN /\ stack' = [stack EXCEPT ![Len(stack)] =
                          [frame EXCEPT !.vals = Tail(frame.vals),
                                        !.assignment_copy = copy]]
          /\ IF consistent(crossword, copy)
             THEN /\ assignment' = Put(assignment, frame.var, val)
                  /\ calls' = calls + 1
                  /\ pc' = "call"
             ELSE UNCHANGED <<assignment, calls, pc>>
    /\ UNCHANGED <<crossword, words, order, arcs_arg, appended, domains, arcs,
                   ac3_result, ret, result>>

\* line 263: the for loop ran out of candidates
BacktrackExhausted ==
    /\ pc = "loop"
    /\ stack[Len(stack)].vals = <<>>
    /\ stack' = SubSeq(stack, 1, Len(stack) - 1)
    /\ ret' = None
    /\ pc' = "return"
    /\ UNCHANGED <<crossword, words, order, arcs_arg, appended, domains, arcs,
                   ac3_result,
                   assignment, result, calls>>

\* lines 259-261 in the caller: result = self.backtrack(assignment), then
\* assignment_complete(result); `var not in None` raises TypeError, which
\* nothing in backtrack, solve or main catches
BacktrackReturn ==
    /\ pc = "return"
    /\ stack /= <<>>
    /\ IF ret = None
       THEN /\ result' = "TypeError"
            /\ pc' = "done"
            /\ stack' = <<>>
       ELSE IF assignment_complete(crossword, assignment)
       THEN /\ stack' = SubSeq(stack, 1, Len(stack) - 1)
            /\ UNCHANGED <<result, pc>>
       ELSE /\ pc' = "loop"
            /\ UNCHANGED <<result, stack>>
    /\ UNCHANGED <<crossword, words, order, arcs_arg, appended, domains, arcs,
                   ac3_result,
                   assignment, ret, calls>>

\* line 95: the outermost backtrack returns to solve, solve returns
SolveReturn ==
    /\ pc = "return"
    /\ stack = <<>>
    /\ result' = ret
    /\ pc' = "done"
    /\ UNCHANGED <<crossword, words, order, arcs_arg, appended, domains, arcs,
                   ac3_result,
                   assignment, stack, ret, calls>>

Next ==
    \/ EnforceNodeConsistency
    \/ Ac3Start
    \/ Ac3Iteration
    \/ Ac3Exhausted
    \/ SolveCallsBacktrack
    \/ BacktrackEnter
    \/ BacktrackTry
    \/ BacktrackExhausted
    \/ BacktrackReturn
    \/ SolveReturn

Spec == Init /\ [][Next]_vars

\* ac3 on its own, after node consistency, with or without a list of arcs;
\* the interpreter runs the loop until ac3 returns
Ac3Next ==
    \/ EnforceNodeConsistency
    \/ Ac3Start
    \/ Ac3StartWith
    \/ Ac3Iteration
    \/ Ac3Exhausted

Ac3Spec == Init /\ [][Ac3Next]_vars /\ WF_vars(Ac3Next)

\* ------------------------------------------------------------------------
\* Properties
\* ------------------------------------------------------------------------

\* a complete assignment that meets every constraint of the puzzle
IsSolution(cw, a) ==
    /\ DOMAIN a = variables(cw)
    /\ \A x, y \in variables(cw) : x /= y => a[x] /= a[y]
    /\ \A x \in variables(cw) : Len(a[x]) = length(cw, x)
    /\ \A x, y \in variables(cw) :
          overlaps(cw, x, y) /= None
              => a[x][overlaps(cw, x, y)[1] + 1] = a[y][overlaps(cw, x, y)[2] + 1]

SolutionExists(cw, ws) ==
    \E a \in [variables(cw) -> ws] : IsSolution(cw, a)

\* x is arc consistent with y in the domains d
ArcConsistent(cw, d, x, y) ==
    \A w \in d[x] : \E u \in d[y] :
        w[overlaps(cw, x, y)[1] + 1] = u[overlaps(cw, x, y)[2] + 1]

SomeDomainEmpty == \E v \in variables(crossword) : domains[v] = {}

\* the queues arcs_helper can return for the puzzle
InitialQueues(cw) ==
    {arcs_helper(ord, nb) : ord \in Perms(variables(cw)), nb \in NeighbourOrders(cw)}

\* C1: an assignment returned by solve() assigns every variable, its words
\* are pairwise distinct and of the length of their variables, and every
\* overlapping pair agrees at the overlap indices.
C1_SearchSoundness ==
    (pc = "done" /\ result = "assignment") => IsSolution(crossword, assignment)

\* solve() returned an assignment for the chain puzzle, where some variable
\* had more than one candidate word left after ac3
C1_Witness ==
    /\ pc = "done" /\ result = "assignment" /\ crossword = "chain"
    /\ \E v \in variables(crossword) : Cardinality(domains[v]) > 1

\* C2: when a complete assignment meeting all constraints exists over the
\* word list, solve() returns a complete assignment.
C2_SearchCompleteness ==
    (pc = "done" /\ SolutionExists(crossword, words)) => result = "assignment"

\* C3: when no satisfying complete assignment exists, solve() returns None
\* (no exception leaves backtrack).
C3_ExhaustionReturnsNone ==
    (pc = "done" /\ ~ SolutionExists(crossword, words)) => result = None

\* C4: when ac3() on the full arc set returns True, every variable is arc
\* consistent with each of its neighbours.
C4_ArcConsistencyFixedPoint ==
    ac3_result = "True"
        => \A x \in variables(crossword) : \A y \in neighbors(crossword, x) :
              /\ ArcConsistent(crossword, domains, x, y)
              /\ ~ revise(crossword, domains, x, y).revision

\* C5: the domains and the result ac3() ends with are the ones it ends with
\* for every other order of the full initial arc set.
C5_Ac3OrderIndependent ==
    ac3_result /= "unset"
        => \A q \in InitialQueues(crossword) :
              ac3(crossword, NodeConsistent(crossword, InitialDomains(crossword, words)), q)
                  = [domains |-> domains, result |-> ac3_result]

\* C6: when ac3() returns False, solve() returns None and backtrack is never
\* invoked.
C6_InfeasibleShortCircuit ==
    ac3_result = "False" => (calls = 0 /\ (pc = "done" => result = None))

\* C7: ac3() returns True only if no domain is empty, and False if some
\* domain is empty.
C7_Ac3ResultValue ==
    /\ ac3_result = "True" => ~ SomeDomainEmpty
    /\ ac3_result = "False" => SomeDomainEmpty

\* C8: when some domain is empty after node consistency and ac3, solve()
\* returns None, not an assignment and not an exception.
C8_EmptyDomainNoSolution ==
    (pc = "done" /\ SomeDomainEmpty) => result = None

\* solve() has returned None with one domain empty and another one not
C8_Witness ==
    /\ pc = "done" /\ result = None /\ SomeDomainEmpty
    /\ \E v \in variables(crossword) : domains[v] /= {}

\* C9: after enforce_node_consistency() the domain of every variable is the
\* set of the words of the word list that have the variable's length.
C9_NodeConsistency ==
    pc = "ac3"
        => \A v \in variables(crossword) :
              domains[v] = {w \in words : Len(w) = length(crossword, v)}

\* enforce_node_consistency() has removed some words of a domain and kept
\* others
C9_Witness ==
    /\ pc = "ac3"
    /\ \E v \in variables(crossword) : domains[v] /= {} /\ domains[v] /= words

\* C10: no step of enforce_node_consistency(), revise() or ac3() adds a word
\* to a domain: every domain after a step is a subset of the one before.
C10_MonotoneNarrowing ==
    [][\A v \in variables(crossword) : domains'[v] \subseteq domains[v]]_vars

\* a revise step of ac3 has removed a word that node consistency had kept
C10_Witness ==
    /\ pc = "ac3_loop"
    /\ \E v \in variables(crossword) :
          /\ domains[v] /= {}
          /\ domains[v] /= {w \in words : Len(w) = length(crossword, v)}

\* the variables the assignment a leaves open
Unassigned(cw, a) == variables(cw) \ DOMAIN a

\* the frame of the innermost running backtrack call
Top == stack[Len(stack)]

\* the number of words in the domains of the unassigned neighbours of var
\* that disagree with the candidate w at the overlap
RuledOut(cw, d, var, a, w) ==
    Cardinality({nu \in {<<n, u>> : n \in neighbors(cw, var), u \in WordUniverse} :
        /\ nu[1] \notin DOMAIN a
        /\ nu[2] \in d[nu[1]]
        /\ w[overlaps(cw, var, nu[1])[1] + 1] /= nu[2][overlaps(cw, var, nu[1])[2] + 1]})

\* the assigned words are distinct, of the right length and agree at the
\* overlaps of the assigned pairs
PartialConsistent(cw, a) ==
    /\ \A x, y \in DOMAIN a : x /= y => a[x] /= a[y]
    /\ \A x \in DOMAIN a : Len(a[x]) = length(cw, x)
    /\ \A x, y \in DOMAIN a :
          (x /= y /\ <<x, y>> \in {<<e[1], e[2]>> : e \in overlapTable(cw)})
              => LET e == CHOOSE e \in overlapTable(cw) : e[1] = x /\ e[2] = y
                 IN a[x][e[3] + 1] = a[y][e[4] + 1]

\* C11: from the first entry of backtrack until solve() returns no step
\* changes the domain of any variable.
C11_DomainsReadOnlyInSearch ==
    [][(pc \in {"call", "loop", "return"}) => (domains' = domains)]_vars

\* the search is two calls deep and has bound a variable
C11_Witness ==
    pc = "loop" /\ Len(stack) >= 2 /\ DOMAIN assignment /= {}

\* C12: for an incomplete assignment select_unassigned_variable returns a
\* variable that is not assigned and whose domain is no larger than the
\* domain of any other unassigned variable.
C12_MRVSelection ==
    /\ pc = "loop"
          => /\ Top.var \in Unassigned(crossword, assignment)
             /\ \A u \in Unassigned(crossword, assignment) :
                   Cardinality(domains[Top.var]) <= Cardinality(domains[u])
    /\ pc = "call"
          => \A S \in (SUBSET variables(crossword)) \ {variables(crossword)} :
                LET a   == [v \in S |-> <<>>]
                    var == select_unassigned_variable(crossword, domains, order, a)
                IN /\ var \in variables(crossword) \ S
                   /\ \A u \in variables(crossword) \ S :
                         Cardinality(domains[var]) <= Cardinality(domains[u])

\* a call below the root selected a variable although another unassigned
\* variable, with a larger domain, comes earlier in the key order
C12_Witness ==
    /\ pc = "loop" /\ DOMAIN assignment /= {}
    /\ \E u \in Unassigned(crossword, assignment) :
          /\ Cardinality(domains[u]) > Cardinality(domains[Top.var])
          /\ \E i, j \in 1..Len(order) : i < j /\ order[i] = u /\ order[j] = Top.var

\* C13: among the unassigned variables that tie for the smallest domain the
\* selected one has the highest number of neighbours.
C13_DegreeTieBreak ==
    pc = "loop"
        => \A u \in Unassigned(crossword, assignment) :
              Cardinality(domains[u]) = Cardinality(domains[Top.var])
                  => Cardinality(neighbors(crossword, Top.var))
                         >= Cardinality(neighbors(crossword, u))

\* C14: for an unassigned variable order_domain_values returns every word
\* of its domain exactly once, ascending in the number of words of the
\* unassigned neighbours' domains that disagree at the overlap.
C14_LCVOrdering ==
    /\ pc = "loop"
          => \A i, j \in 1..Len(Top.vals) :
                i < j => RuledOut(crossword, domains, Top.var, assignment, Top.vals[i])
                           <= RuledOut(crossword, domains, Top.var, assignment, Top.vals[j])
    /\ pc = "call"
          => \A var \in Unassigned(crossword, assignment) :
                \A iter \in Perms(domains[var]) :
                   LET seq == order_domain_values(crossword, domains, var, assignment, iter)
                   IN /\ Len(seq) = Cardinality(domains[var])
                      /\ Range(seq) = domains[var]
                      /\ \A i, j \in 1..Len(seq) :
                            i < j => RuledOut(crossword, domains, var, assignment, seq[i])
                                       <= RuledOut(crossword, domains, var, assignment, seq[j])

\* a call has just ordered the candidates of its variable, and the first
\* candidate rules out fewer words of the unassigned neighbours than the
\* last
C14_Witness ==
    /\ pc = "loop"
    /\ Len(Top.vals) = Cardinality(domains[Top.var])
    /\ Len(Top.vals) >= 2
    /\ RuledOut(crossword, domains, Top.var, assignment, Top.vals[1])
          < RuledOut(crossword, domains, Top.var, assignment, Top.vals[Len(Top.vals)])

\* C15: when revise(x, y) has removed words from the domain of x without
\* emptying it, ac3 has every arc (z, x), z a neighbour of x other than y,
\* in its queue afterwards.
C15_ReenqueueIncomingArcs ==
    [][(pc = "ac3_loop" /\ arcs /= <<>>)
          => LET x == Head(arcs)[1]
                 y == Head(arcs)[2]
             IN (domains'[x] /= domains[x] /\ domains'[x] /= {})
                   => \A z \in neighbors(crossword, x) \ {y} :
                         <<z, x>> \in Range(arcs')]_vars

\* C16: revise(x, y) leaves in the domain of x exactly the words that some
\* word of the domain of y agrees with at the overlap, returns True exactly
\* when a word was removed, and changes no other domain.
C16_ReviseContract ==
    [][(pc = "ac3_loop" /\ arcs /= <<>>)
          => LET x == Head(arcs)[1]
                 y == Head(arcs)[2]
                 i == overlaps(crossword, x, y)[1]
                 j == overlaps(crossword, x, y)[2]
             IN /\ domains'[x] = {w \in domains[x] :
                                     \E u \in domains[y] : w[i + 1] = u[j + 1]}
                /\ \A v \in variables(crossword) \ {x} : domains'[v] = domains[v]
                /\ revise(crossword, domains, x, y).revision
                      = (domains'[x] /= domains[x])]_vars

\* ac3 has returned True after revise removed some, but not all, words of
\* a domain
C16_Witness ==
    /\ ac3_result = "True"
    /\ \E v \in variables(crossword) :
          /\ domains[v] /= {}
          /\ domains[v] /= {w \in words : Len(w) = length(crossword, v)}

\* C17: when the recursive call made for a candidate fails, the binding of
\* the selected variable is removed and the loop goes on with the next
\* candidate.
C17_UndoOnBacktrack ==
    [][(pc = "return" /\ ret = None /\ stack /= <<>>)
          => /\ pc' = "loop"
             /\ result' = "pending"
             /\ Top.var \notin DOMAIN assignment']_vars

\* C18: consistent(assignment) is True exactly when the assigned words are
\* distinct, have the length of their variables and agree at the overlap
\* of every assigned pair that has one.
C18_FullConsistencyCheck ==
    /\ \A k \in 1..Len(stack) :
          consistent(crossword, stack[k].assignment_copy)
              = PartialConsistent(crossword, stack[k].assignment_copy)
    /\ pc = "solve"
          => \A S \in SUBSET variables(crossword) : \A a \in [S -> words] :
                consistent(crossword, a) = PartialConsistent(crossword, a)

\* the search has rejected a candidate that has the right length and
\* differs from the words assigned so far, while a third variable is still
\* unassigned
C18_Witness ==
    /\ pc = "loop"
    /\ Top.var \in DOMAIN Top.assignment_copy
    /\ Cardinality(DOMAIN Top.assignment_copy) = 2
    /\ ~ consistent(crossword, Top.assignment_copy)
    /\ \A x, y \in DOMAIN Top.assignment_copy :
          x /= y => Top.assignment_copy[x] /= Top.assignment_copy[y]

\* the size of the largest domain ac3 starts from
LargestDomain ==
    Cardinality(CHOOSE ws \in {NodeConsistent(crossword, InitialDomains(crossword, words))[v] :
                                   v \in variables(crossword)} :
                   \A v \in variables(crossword) :
                       Cardinality({w \in words : Len(w) = length(crossword, v)})
                           <= Cardinality(ws))

\* C19: ac3() returns; it appends an arc to the queue only in an iteration
\* whose revise removed a word, and appends no arc more often than the
\* largest domain it started from has words.
C19_Ac3Termination ==
    /\ <>(ac3_result /= "unset")
    /\ [][(pc = "ac3_loop"
             /\ \E a \in all_arcs(crossword) :
                   Occurrences(arcs', a) > Occurrences(arcs, a))
           => \E v \in variables(crossword) :
                 domains'[v] /= domains[v] /\ domains'[v] \subseteq domains[v]]_vars
    /\ [][\A a \in all_arcs(crossword) : appended'[a] <= LargestDomain]_vars

\* ac3 has returned after it appended an arc to a queue a caller supplied
C19_Witness ==
    /\ ac3_result /= "unset"
    /\ arcs_arg.given
    /\ \E a \in all_arcs(crossword) : appended[a] >= 1

\* C20: ac3 starts from exactly the list of arcs it is given and from the
\* full arc set only when it is given none; given the empty list it returns
\* True without changing a domain.
C20_SuppliedQueue ==
    [][/\ (pc = "ac3" /\ pc' = "ac3_loop")
            => IF arcs_arg'.given
               THEN arcs' = arcs_arg'.list
               ELSE arcs' \in InitialQueues(crossword)
       /\ (pc = "ac3_loop" /\ arcs_arg = ArcList(<<>>))
            => (domains' = domains /\ ac3_result' = "True")]_vars

\* the complete assignments over the word list ws that meet every length
\* and every overlap constraint (the words need not be distinct)
LengthAndOverlapSolutions(cw, ws) ==
    {a \in [variables(cw) -> ws] :
        /\ \A x \in variables(cw) : Len(a[x]) = length(cw, x)
        /\ \A e \in overlapTable(cw) : a[e[1]][e[3] + 1] = a[e[2]][e[4] + 1]}

\* C21: every word of a complete assignment that meets all length and
\* overlap constraints over the word list is in the domain of its variable
\* after enforce_node_consistency() and after every revise step of ac3().
C21_SolutionWordsSurvive ==
    \A a \in LengthAndOverlapSolutions(crossword, words) :
        \A v \in variables(crossword) : a[v] \in domains[v]

\* ac3 has returned after revise removed a word of the right length from
\* a domain, and the puzzle has a complete assignment that meets the length
\* and overlap constraints
C21_Witness ==
    /\ pc = "ac3_returned"
    /\ LengthAndOverlapSolutions(crossword, words) /= {}
    /\ \E v \in variables(crossword) :
          domains[v] /= {w \in words : Len(w) = length(crossword, v)}

====
